---- MODULE Spec2Model ----
(***************************************************************************)
(* Discharge / prescription form: the FHIR document bundle builder.        *)
(*                                                                         *)
(* The repository holds two variants of src/App.js:                        *)
(*   "App"  the full form (validation, dosage sub-blocks, optional Binary) *)
(*   "gpt"  the reduced generator (no validation, coded medication,        *)
(*          Binary always emitted)                                         *)
(* A run of the program is one of the two; `variant` records which.        *)
(*                                                                         *)
(* Conventions                                                             *)
(*   null / undefined   the empty tuple <<>>                               *)
(*   a number n         the tuple <<n>> where null is possible             *)
(*   a uuid             a natural number standing for one 36-char string   *)
(*   `urn:uuid:${id}`   the pair <<"urn:uuid:", id>>                       *)
(*   a string whose characters matter (medicationCode) is a sequence of    *)
(*   one-character strings; every other string is a TLA+ string            *)
(*   an object with optional keys is a record built with @@                *)
(*                                                                         *)
(* Of each resource the model keeps the identifier, the references, the   *)
(* fields copied from the form and the conditional sub-blocks; the fixed   *)
(* meta.profile lists, the generated narrative (text.div) and the          *)
(* resources' own meta.lastUpdated carry no reference and are left out.    *)
(* The Bundle keeps its timestamp and meta.lastUpdated.                    *)
(*                                                                         *)
(* Specifications                                                          *)
(*   SpecBuild     buildBundle of either variant over the bounded forms    *)
(*   SpecExternal  buildBundle over forms supplied from outside the inputs *)
(*   SpecDiff      lineDiff over pairs of texts                            *)
(*   SpecUuid      uuidv4 over sequences of random values                  *)
(*   SpecClock     the envelope timestamps over clock readings             *)
(*   Spec          the form's handlers, Generate, Download and Compare     *)
(*   SpecOutput    Generate, Download and Compare between section edits    *)
(*   SpecList      Add Medication, Remove and Generate                     *)
(*   SpecFile      file selections and the completions of their reads      *)
(***************************************************************************)
EXTENDS Integers, Sequences, FiniteSets, TLC

VARIABLES
    variant,            \* which App.js is loaded: "App" or "gpt"
    practitioner,       \* useState: {name, license}
    patient,            \* useState: {name, mrn, birthDate, gender, phone}
    condition,          \* useState: {text, code, clinicalStatus}
    composition,        \* useState: {title, status, date}
    medications,        \* useState: list of medication items
    attachmentBase64,   \* useState: null or the base64 payload
    generated,          \* useState: null or <<bundle>>
    errorMsg,           \* useState: "" or the last rejection message
    lastCall,           \* most recent buildBundle call: uuids drawn, value returned
    diffInput,          \* the two texts handed to lineDiff
    diffRows,           \* useState: rows of the last comparison
    showCompareModal,   \* useState: whether the comparison modal is open
    uuidDraws,          \* the values Math.random() yields to one uuidv4() call
    uuidText,           \* the string that uuidv4() call returned, <<>> before it
    clock,              \* the reading of new Date(): UTC minutes and zone offset
    readers,            \* FileReader reads started and not yet completed
    latestFile,         \* the most recent file selection and how its read ended
    downloaded,         \* the file last handed to the browser by handleDownload
    eventsLeft          \* form events the session may still perform

diffVars == <<diffInput, diffRows, showCompareModal>>
uuidVars == <<uuidDraws, uuidText>>
fileVars == <<readers, latestFile>>
auxVars == <<diffVars, uuidVars, clock, fileVars, downloaded, eventsLeft>>

vars == <<variant, practitioner, patient, condition, composition, medications,
          attachmentBase64, generated, errorMsg, lastCall, auxVars>>

(***************************************************************************)
(* Bounds                                                                  *)
(***************************************************************************)
\* longest medication list considered
MaxMeds == 2
\* longest repetition period of the random source considered, besides
\* the source that never repeats within one run
MaxPeriod == 2

\* uuidv4() calls of one buildBundle run never exceed this
MaxDraws == MaxMeds + 8

(***************************************************************************)
(* Dates.  A Date d is [utc, tzOffsetMin]: the UTC wall clock in minutes   *)
(* since the epoch, and d.getTimezoneOffset() (UTC minus local time, in    *)
(* minutes).  An ISO string is [fields, designator]: the wall-clock fields *)
(* it spells out, as minutes since the epoch, and the zone designator      *)
(* that ends it.                                                           *)
(***************************************************************************)
\* Date.prototype.toISOString: the UTC fields and "Z"
toISOString(d) == [fields |-> d.utc, designator |-> "Z"]

\* String(n).padStart(2, "0")
pad(n) == IF n < 10 THEN "0" \o ToString(n) ELSE ToString(n)

abs(n) == IF n < 0 THEN 0 - n ELSE n

\* gpt variant, getISOWithOffset() without argument (d = now): "Z" of
\* toISOString replaced by the sign, hours and minutes of the zone offset
getISOWithOffset(d) ==
    LET tzOffsetMin == d.tzOffsetMin
        sign == IF tzOffsetMin > 0 THEN "-" ELSE "+"
        offsetHr == pad(abs(tzOffsetMin) \div 60)
        offsetMin == pad(abs(tzOffsetMin) % 60)
    IN  [toISOString(d) EXCEPT !.designator = sign \o offsetHr \o ":" \o offsetMin]

null == <<>>
undefined == <<>>
EmptyObject == <<>>

\* JavaScript truthiness of a string
Truthy(s) == s # ""
\* JavaScript truthiness of a number-or-null (0 and null are falsy)
TruthyNum(n) == n # null /\ n[1] # 0
\* JavaScript truthiness of a string-or-null
TruthyOpt(s) == s # null /\ s[1] # ""

\* `urn:uuid:${id}`
Urn(id) == <<"urn:uuid:", id>>

\* cond ? obj : {}   spread into an object literal
When(cond, obj) == IF cond THEN obj ELSE EmptyObject

(***************************************************************************)
(* uuidv4: the random source.  One buildBundle run makes up to MaxDraws    *)
(* calls; a stream gives the uuid returned by the k-th call.  Math.random  *)
(* is free to repeat itself, so streams with a short period (colliding     *)
(* uuids) are considered next to the stream whose draws are all distinct,  *)
(* each from two starting points (a later run may or may not return the    *)
(* uuids of an earlier one).                                               *)
(***************************************************************************)
Periods == (1..MaxPeriod) \cup {MaxDraws}

uuidv4Streams ==
    { [k \in 1..MaxDraws |-> base + ((k - 1) % p)] :
        base \in {0, MaxDraws}, p \in Periods }

(***************************************************************************)
(* The form as buildBundle reads it from the component's state.            *)
(***************************************************************************)
FormState ==
    [practitioner |-> practitioner, patient |-> patient, condition |-> condition,
     composition |-> composition, medications |-> medications,
     attachmentBase64 |-> attachmentBase64]

(***************************************************************************)
(* App variant: validation (the throws at the head of buildBundle).        *)
(***************************************************************************)
\* mutant: the forEach check looks at the drug name only
itemIncomplete_drugOnly(m) == ~Truthy(m.medicationText)

\* an item the forEach check throws on
itemIncomplete(m) == ~Truthy(m.medicationText) \/ ~Truthy(m.dosageText)

\* mutant: the position of the last incomplete item
firstIncomplete_last(meds) ==
    IF \E i \in 1..Len(meds) : itemIncomplete(meds[i])
    THEN CHOOSE i \in 1..Len(meds) :
            /\ itemIncomplete(meds[i])
            /\ \A j \in (i + 1)..Len(meds) : ~itemIncomplete(meds[j])
    ELSE 0

\* 1-based position of the first item the forEach throws on, 0 when none
firstIncomplete(meds) ==
    IF \E i \in 1..Len(meds) : itemIncomplete(meds[i])
    THEN CHOOSE i \in 1..Len(meds) :
            /\ itemIncomplete(meds[i])
            /\ \A j \in 1..(i - 1) : ~itemIncomplete(meds[j])
    ELSE 0

\* a status buildBundle throws on
statusRejected(status) == ~Truthy(status)

\* the message of the first Error thrown, "" when nothing is thrown
validationError(f) ==
    IF ~Truthy(f.practitioner.name) \/ ~Truthy(f.practitioner.license)
    THEN "Practitioner name and license are required."
    ELSE IF \/ ~Truthy(f.patient.name) \/ ~Truthy(f.patient.mrn)
            \/ ~Truthy(f.patient.birthDate)
    THEN "Patient name, MRN and DOB are required."
    ELSE IF ~Truthy(f.condition.text)
    THEN "Condition/Diagnosis is required."
    ELSE IF \/ ~Truthy(f.composition.title) \/ ~Truthy(f.composition.date)
            \/ statusRejected(f.composition.status)
    THEN "Prescription title, date and status are required."
    ELSE IF Len(f.medications) = 0
    THEN "Add at least one medication."
    ELSE IF firstIncomplete(f.medications) # 0
    THEN "Medication #" \o ToString(firstIncomplete(f.medications))
            \o ": Drug name and Dosage Instructions are required."
    ELSE ""

(***************************************************************************)
(* App variant: the records.                                               *)
(***************************************************************************)
\* whether the Binary id, resource, entry and section reference are made
hasAttachment(f) == TruthyOpt(f.attachmentBase64)

\* mutant: the section list is built back to front
sectionEntries_reversed(medReqIds, binaryId) ==
    (IF binaryId # null
     THEN <<[reference |-> Urn(binaryId[1]), type |-> "Binary"]>>
     ELSE <<>>)
    \o [i \in 1..Len(medReqIds) |->
          [reference |-> Urn(medReqIds[Len(medReqIds) + 1 - i]), type |-> "MedicationRequest"]]

\* Composition.section[0].entry
sectionEntries(medReqIds, binaryId) ==
    [i \in 1..Len(medReqIds) |->
        [reference |-> Urn(medReqIds[i]), type |-> "MedicationRequest"]]
    \o (IF binaryId # null
        THEN <<[reference |-> Urn(binaryId[1]), type |-> "Binary"]>>
        ELSE <<>>)

compositionResource(f, compId, patientId, practitionerId, medReqIds, binaryId, identifierValue) ==
    [resourceType |-> "Composition",
     id |-> compId,
     language |-> "en-IN",
     identifier |-> [system |-> "https://ndhm.in/phr", value |-> identifierValue],
     status |-> IF f.composition.status = "final" THEN "final" ELSE f.composition.status,
     type |-> [coding |-> <<[system |-> "http://snomed.info/sct", code |-> "440545006",
                             display |-> "Prescription record"]>>,
               text |-> "Prescription record"],
     subject |-> [reference |-> Urn(patientId), display |-> f.patient.name],
     date |-> f.composition.date,
     author |-> <<[reference |-> Urn(practitionerId), display |-> f.practitioner.name]>>,
     title |-> f.composition.title,
     section |-> <<[title |-> "Prescription record",
                    code |-> [coding |-> <<[system |-> "http://snomed.info/sct",
                                            code |-> "440545006",
                                            display |-> "Prescription record"]>>],
                    entry |-> sectionEntries(medReqIds, binaryId)]>>]

patientResource(f, patientId) ==
    [resourceType |-> "Patient",
     id |-> patientId,
     identifier |-> <<[system |-> "https://healthid.ndhm.gov.in", value |-> f.patient.mrn]>>,
     name |-> <<[text |-> f.patient.name]>>,
     telecom |-> <<[system |-> "phone", value |-> f.patient.phone, use |-> "home"]>>,
     gender |-> f.patient.gender,
     birthDate |-> f.patient.birthDate]

practitionerResource(f, practitionerId) ==
    [resourceType |-> "Practitioner",
     id |-> practitionerId,
     identifier |-> <<[system |-> "https://doctor.ndhm.gov.in", value |-> f.practitioner.license]>>,
     name |-> <<[text |-> f.practitioner.name]>>]

\* dosage.timing is attached
hasTiming(m) == TruthyNum(m.frequency) \/ TruthyNum(m.period)

\* dosage.timing.repeat
timingRepeat(m) ==
    When(TruthyNum(m.frequency), [frequency |-> m.frequency[1]])
    @@ When(TruthyNum(m.period), [period |-> m.period[1]])
    @@ [periodUnit |-> IF Truthy(m.periodUnit) THEN m.periodUnit ELSE "d"]

\* the dosage object of one MedicationRequest
dosageOf(m) ==
    [text |-> m.dosageText]
    @@ When(Truthy(m.additionalInstruction),
            [additionalInstruction |->
                <<[coding |-> <<[system |-> "http://snomed.info/sct", code |-> "311504000",
                                 display |-> m.additionalInstruction]>>]>>])
    @@ When(hasTiming(m), [timing |-> [repeat |-> timingRepeat(m)]])
    @@ When(Truthy(m.route),
            [route |-> [coding |-> <<[system |-> "http://snomed.info/sct", code |-> "26643006",
                                      display |-> m.route]>>]])
    @@ When(Truthy(m.method),
            [method |-> [coding |-> <<[system |-> "http://snomed.info/sct", code |-> "421521009",
                                       display |-> m.method]>>]])

\* m.medicationText ? { text: m.medicationText } : undefined
medicationText(m) ==
    IF Truthy(m.medicationText) THEN [text |-> m.medicationText] ELSE undefined

\* mutant: the requester points to the patient
orderReferences_requesterIsPatient(f, patientId, practitionerId, conditionId) ==
    [subject |-> [reference |-> Urn(patientId), display |-> f.patient.name],
     requester |-> [reference |-> Urn(patientId), display |-> f.practitioner.name],
     reasonReference |-> <<[reference |-> Urn(conditionId), display |-> "Condition"]>>]

\* subject, requester and reasonReference of a MedicationRequest
orderReferences(f, patientId, practitionerId, conditionId) ==
    [subject |-> [reference |-> Urn(patientId), display |-> f.patient.name],
     requester |-> [reference |-> Urn(practitionerId), display |-> f.practitioner.name],
     reasonReference |-> <<[reference |-> Urn(conditionId), display |-> "Condition"]>>]

medicationResource(f, m, medReqId, patientId, practitionerId, conditionId) ==
    [resourceType |-> "MedicationRequest",
     id |-> medReqId,
     status |-> "active",
     intent |-> "order",
     medicationCodeableConcept |-> medicationText(m),
     authoredOn |-> IF Truthy(m.authoredOn) THEN m.authoredOn ELSE f.composition.date,
     reasonCode |-> <<[coding |-> <<[system |-> "http://snomed.info/sct",
                                     code |-> IF Truthy(f.condition.code)
                                              THEN f.condition.code ELSE "unknown",
                                     display |-> f.condition.text]>>]>>,
     dosageInstruction |-> <<dosageOf(m)>>]
    @@ orderReferences(f, patientId, practitionerId, conditionId)

conditionResource(f, conditionId, patientId) ==
    [resourceType |-> "Condition",
     id |-> conditionId,
     clinicalStatus |-> [coding |-> <<[
         system |-> "http://terminology.hl7.org/CodeSystem/condition-clinical",
         code |-> IF Truthy(f.condition.clinicalStatus)
                  THEN f.condition.clinicalStatus ELSE "active",
         display |-> IF Truthy(f.condition.clinicalStatus)
                     THEN f.condition.clinicalStatus ELSE "Active"]>>],
     code |-> [coding |-> <<[system |-> "http://snomed.info/sct",
                             code |-> IF Truthy(f.condition.code)
                                      THEN f.condition.code ELSE "21522001",
                             display |-> f.condition.text]>>,
               text |-> f.condition.text],
     subject |-> [reference |-> Urn(patientId), display |-> f.patient.name]]

binaryResource(f, binaryId) ==
    [resourceType |-> "Binary",
     id |-> binaryId,
     contentType |-> "application/pdf",
     data |-> f.attachmentBase64[1]]

\* { fullUrl: `urn:uuid:${resource.id}`, resource }
entryOf(resource) == [fullUrl |-> Urn(resource.id), resource |-> resource]

(***************************************************************************)
(* App variant: buildBundle.  u is the stream of uuidv4() results, in call *)
(* order: compId, patientId, practitionerId, conditionId, one per          *)
(* medication, binaryId (only with an attachment), bundleIdentifier.value, *)
(* Composition.identifier.value, the uuid of the Bundle id.                *)
(***************************************************************************)
\* mutant: one uuidv4() call for the whole list
medReqIdsOf_oneCall(f, u) == [i \in 1..Len(f.medications) |-> u[5]]

medReqIdsOf(f, u) == [i \in 1..Len(f.medications) |-> u[4 + i]]

\* mutant: the Binary id is drawn whether or not there is an attachment
binaryIdOf_always(f, u) == <<u[5 + Len(f.medications)]>>

binaryIdOf(f, u) ==
    IF hasAttachment(f) THEN <<u[5 + Len(f.medications)]>> ELSE null

\* number of uuidv4() calls of an accepted run
drawsOf(f) == 7 + Len(f.medications) + (IF hasAttachment(f) THEN 1 ELSE 0)

\* the entries array, in push order
entriesOf(f, u) ==
    LET n == Len(f.medications)
        binaryId == binaryIdOf(f, u)
        medicationResources ==
            [i \in 1..n |->
                medicationResource(f, f.medications[i], medReqIdsOf(f, u)[i], u[2], u[3], u[4])]
    IN  << entryOf(compositionResource(f, u[1], u[2], u[3], medReqIdsOf(f, u), binaryId,
                                       u[drawsOf(f) - 1])),
           entryOf(patientResource(f, u[2])),
           entryOf(practitionerResource(f, u[3])) >>
        \o [i \in 1..n |-> entryOf(medicationResources[i])]
        \o << entryOf(conditionResource(f, u[4], u[2])) >>
        \o (IF hasAttachment(f) THEN << entryOf(binaryResource(f, binaryId[1])) >> ELSE <<>>)

bundleOf(f, u) ==
    [resourceType |-> "Bundle",
     id |-> <<"Prescription-", u[drawsOf(f)]>>,
     meta |-> [versionId |-> "1", lastUpdated |-> toISOString(clock)],
     identifier |-> [system |-> "http://hip.in", value |-> u[drawsOf(f) - 2]],
     type |-> "document",
     timestamp |-> toISOString(clock),
     entry |-> entriesOf(f, u)]

\* what one call does: the value returned, the message passed to
\* setErrorMsg in the catch ("" when nothing is thrown), the uuids drawn
buildBundle(f, u) ==
    IF validationError(f) # ""
    THEN [bundle |-> null, errorMsg |-> validationError(f), ids |-> <<>>]
    ELSE [bundle |-> <<bundleOf(f, u)>>, errorMsg |-> "",
          ids |-> SubSeq(u, 1, drawsOf(f))]

(***************************************************************************)
(* gpt variant: buildBundle.  No validation; the Binary id, resource,      *)
(* entry and section reference are made on every run.  uuidv4() call       *)
(* order: compId, patientId, practitionerId, conditionId, one per          *)
(* medication, binaryId, the uuid of the Bundle id, Bundle                 *)
(* identifier.value, Composition.identifier.value.                         *)
(***************************************************************************)
WhiteSpace == {" ", "\t", "\n"}

RECURSIVE trimStart(_)
trimStart(s) ==
    IF s # <<>> /\ Head(s) \in WhiteSpace THEN trimStart(Tail(s)) ELSE s

RECURSIVE trimEnd(_)
trimEnd(s) ==
    IF s # <<>> /\ s[Len(s)] \in WhiteSpace THEN trimEnd(SubSeq(s, 1, Len(s) - 1)) ELSE s

\* String.prototype.trim
trim(s) == trimEnd(trimStart(s))

\* mutant: the code is tested and copied without trimming
gptMedicationCodeableConcept_noTrim(m) ==
    IF m.medicationCode # <<>>
    THEN [coding |-> <<[system |-> "http://snomed.info/sct",
                        code |-> m.medicationCode,
                        display |-> m.medicationText]>>]
    ELSE [text |-> m.medicationText]

\* the medicationCodeableConcept of the gpt variant
gptMedicationCodeableConcept(m) ==
    IF m.medicationCode # <<>> /\ trim(m.medicationCode) # <<>>
    THEN [coding |-> <<[system |-> "http://snomed.info/sct",
                        code |-> trim(m.medicationCode),
                        display |-> m.medicationText]>>]
    ELSE [text |-> m.medicationText]

gptSectionEntries(medReqIds, binaryId) ==
    [i \in 1..Len(medReqIds) |->
        [reference |-> Urn(medReqIds[i]), type |-> "MedicationRequest"]]
    \o <<[reference |-> Urn(binaryId), type |-> "Binary"]>>

gptCompositionResource(f, compId, patientId, practitionerId, medReqIds, binaryId, identifierValue) ==
    [resourceType |-> "Composition",
     id |-> compId,
     language |-> "en-IN",
     identifier |-> [system |-> "https://ndhm.in/phr", value |-> identifierValue],
     status |-> f.composition.status,
     type |-> [coding |-> <<[system |-> "http://snomed.info/sct", code |-> "440545006",
                             display |-> "Prescription record"]>>,
               text |-> "Prescription record"],
     subject |-> [reference |-> Urn(patientId), display |-> "Patient"],
     date |-> <<f.composition.date, "T00:00:00+05:30">>,
     author |-> <<[reference |-> Urn(practitionerId), display |-> "Practitioner"]>>,
     title |-> f.composition.title,
     section |-> <<[title |-> "Prescription record",
                    code |-> [coding |-> <<[system |-> "http://snomed.info/sct",
                                            code |-> "440545006",
                                            display |-> "Prescription record"]>>],
                    entry |-> gptSectionEntries(medReqIds, binaryId)]>>]

gptMedicationResource(f, m, medReqId, patientId, practitionerId, conditionId) ==
    [resourceType |-> "MedicationRequest",
     id |-> medReqId,
     status |-> "active",
     intent |-> "order",
     medicationCodeableConcept |-> gptMedicationCodeableConcept(m),
     subject |-> [reference |-> Urn(patientId), display |-> f.patient.name],
     authoredOn |-> f.composition.date,
     requester |-> [reference |-> Urn(practitionerId), display |-> f.practitioner.name],
     reasonCode |-> <<[coding |-> <<[system |-> "http://snomed.info/sct",
                                     code |-> f.condition.code,
                                     display |-> f.condition.text]>>]>>,
     reasonReference |-> <<[reference |-> Urn(conditionId), display |-> "Condition"]>>,
     dosageInstruction |-> <<[text |-> m.dosageText]>>]

gptConditionResource(f, conditionId, patientId) ==
    [resourceType |-> "Condition",
     id |-> conditionId,
     clinicalStatus |-> [coding |-> <<[
         system |-> "http://terminology.hl7.org/CodeSystem/condition-clinical",
         code |-> f.condition.clinicalStatus,
         display |-> "Active"]>>],
     code |-> [coding |-> <<[system |-> "http://snomed.info/sct",
                             code |-> f.condition.code,
                             display |-> f.condition.text]>>,
               text |-> f.condition.text],
     subject |-> [reference |-> Urn(patientId), display |-> "Patient"]]

\* attachmentBase64 || "JVBERi0xLjQKJ..."
gptBinaryResource(f, binaryId) ==
    [resourceType |-> "Binary",
     id |-> binaryId,
     contentType |-> "application/pdf",
     data |-> IF TruthyOpt(f.attachmentBase64)
              THEN f.attachmentBase64[1] ELSE "JVBERi0xLjQKJ..."]

gptDrawsOf(f) == 8 + Len(f.medications)

gptEntriesOf(f, u) ==
    LET n == Len(f.medications)
        binaryId == u[5 + n]
        medReqIds == [i \in 1..n |-> u[4 + i]]
    IN  << entryOf(gptCompositionResource(f, u[1], u[2], u[3], medReqIds, binaryId, u[8 + n])),
           entryOf(patientResource(f, u[2])),
           entryOf(practitionerResource(f, u[3])) >>
        \o [i \in 1..n |->
               entryOf(gptMedicationResource(f, f.medications[i], medReqIds[i], u[2], u[3], u[4]))]
        \o << entryOf(gptConditionResource(f, u[4], u[2])) >>
        \o << entryOf(gptBinaryResource(f, binaryId)) >>

gptBuildBundle(f, u) ==
    [bundle |-> <<[resourceType |-> "Bundle",
                   id |-> <<"Prescription-", u[6 + Len(f.medications)]>>,
                   meta |-> [versionId |-> "1", lastUpdated |-> getISOWithOffset(clock)],
                   identifier |-> [system |-> "http://hip.in",
                                   value |-> u[7 + Len(f.medications)]],
                   type |-> "document",
                   timestamp |-> getISOWithOffset(clock),
                   entry |-> gptEntriesOf(f, u)]>>,
     errorMsg |-> "",
     ids |-> SubSeq(u, 1, gptDrawsOf(f))]

(***************************************************************************)
(* Form values.  The useState initial values, and next to them the values  *)
(* the form's inputs can put in their place: a text or date input can be   *)
(* emptied, a number input holds null (empty), 0 or a positive number, a   *)
(* select holds one of its options.                                        *)
(***************************************************************************)
initPractitioner == [name |-> "Dr. DEF", license |-> "21-1521-3828-3227"]

initPatient ==
    [name |-> "ABC", mrn |-> "22-7225-4829-5255", birthDate |-> "1981-01-12",
     gender |-> "male", phone |-> "+919818512600"]

initCondition == [text |-> "Abdominal pain", code |-> "21522001", clinicalStatus |-> "active"]

\* date: new Date().toISOString().slice(0, 10) on the day the form is opened
initComposition == [title |-> "Prescription record", status |-> "final", date |-> "2024-01-01"]

\* the second initial medication: no optional field filled in
initMedication ==
    [medicationText |-> "Paracetemol 500mg Oral Tab",
     dosageText |-> "Take two tablets orally with or after meal once a day",
     additionalInstruction |-> "", frequency |-> null, period |-> null, periodUnit |-> "d",
     route |-> "", method |-> "", reason |-> "Abdominal pain", authoredOn |-> "2024-01-01"]

\* the options of the Status select
StatusOptions == {"final", "draft"}

Practitioners ==
    [name : {"", initPractitioner.name}, license : {"", initPractitioner.license}]

Patients ==
    [name : {"", initPatient.name}, mrn : {"", initPatient.mrn},
     birthDate : {"", initPatient.birthDate}, gender : {initPatient.gender},
     phone : {initPatient.phone}]

Conditions ==
    [text : {"", initCondition.text}, code : {"", initCondition.code},
     clinicalStatus : {initCondition.clinicalStatus}]

Compositions ==
    [title : {"", initComposition.title}, status : StatusOptions,
     date : {"", initComposition.date}]

\* items that differ in the two required texts only
TextItems ==
    { [initMedication EXCEPT !.medicationText = t, !.dosageText = d] :
        t \in {"", initMedication.medicationText}, d \in {"", initMedication.dosageText} }

\* the values of a number input
NumberInputs == {null, <<0>>, <<1>>}

\* the first initial medication: every optional field filled in
initMedicationFull ==
    [medicationText |-> "Azithromycin 250 mg oral tablet",
     dosageText |-> "One tablet at once",
     additionalInstruction |-> "With or after food", frequency |-> <<1>>, period |-> <<1>>,
     periodUnit |-> "d", route |-> "Oral Route", method |-> "Swallow",
     reason |-> "Abdominal pain", authoredOn |-> "2024-01-01"]

\* complete items: the first initial one, and the second with every
\* combination of the two timing inputs
DoseItems ==
    { initMedicationFull }
    \cup
    { [initMedication EXCEPT !.frequency = fr, !.period = pe] :
        fr \in NumberInputs, pe \in NumberInputs }

\* the non-empty lists of at most MaxMeds items of S (the Remove button is
\* disabled on the last item, so the form's list is never empty)
ListsOf(S) == UNION { [1..n -> S] : n \in 1..MaxMeds }

\* null, the payload of an empty file, the payload of a PDF
Attachments == {null, <<"">>, <<"JVBERi0xLjQK">>}

\* forms that differ in what validation reads
ValidationForms ==
    [practitioner : Practitioners, patient : Patients, condition : Conditions,
     composition : Compositions, medications : ListsOf(TextItems),
     attachmentBase64 : {null}]

\* complete forms that differ in what assembly reads
AssemblyForms ==
    [practitioner : {initPractitioner}, patient : {initPatient},
     condition : {initCondition},
     composition : {initComposition}, medications : ListsOf(DoseItems),
     attachmentBase64 : Attachments]

(***************************************************************************)
(* gpt variant: its useState values have no setter, so the form is the     *)
(* initial one; the medication code of each item is drawn from GptCodes    *)
(* to reach both arms of medicationCodeableConcept.                        *)
(***************************************************************************)
GptCodes == { <<>>, <<" ">>, <<"1", "1", "4">>, <<" ", "1", "1", "4", " ">>, <<" ", "\t">> }

GptItems ==
    { [medicationText |-> "Azithromycin 250 mg oral tablet", medicationCode |-> c,
       dosageText |-> "One tablet at once"] : c \in GptCodes }

GptForms ==
    [practitioner : {initPractitioner}, patient : {initPatient},
     condition : {initCondition}, composition : {initComposition},
     medications : ListsOf(GptItems), attachmentBase64 : {null}]

\* a reading of new Date() in a zone five and a half hours ahead of UTC
initClock == [utc |-> 0, tzOffsetMin |-> 0 - 330]

(***************************************************************************)
(* Specification SpecBuild: buildBundle over the bounded set of forms.     *)
(***************************************************************************)
SetForm(f) ==
    /\ practitioner = f.practitioner
    /\ patient = f.patient
    /\ condition = f.condition
    /\ composition = f.composition
    /\ medications = f.medications
    /\ attachmentBase64 = f.attachmentBase64

\* the useState initial values besides the form, and nothing in flight
InitUI ==
    /\ generated = null
    /\ errorMsg = ""
    /\ lastCall = [called |-> FALSE, ids |-> <<>>, result |-> null]
    /\ diffRows = <<>>
    /\ showCompareModal = FALSE
    /\ readers = <<>>
    /\ latestFile = [file |-> null, outcome |-> "none"]
    /\ downloaded = null

\* no text pair, no uuidv4() call on its own, one clock reading, no form events
InitSession ==
    /\ diffInput = <<>>
    /\ uuidDraws = <<>>
    /\ uuidText = <<>>
    /\ clock = initClock
    /\ eventsLeft = 0

InitBuild ==
    /\ \/ variant = "App" /\ \E f \in ValidationForms \cup AssemblyForms : SetForm(f)
       \/ variant = "gpt" /\ \E f \in GptForms : SetForm(f)
    /\ InitUI
    /\ InitSession

\* the uuidv4() results a run can see: a rejected run throws before the
\* first uuidv4() call
streamsOf(f) ==
    IF validationError(f) # "" THEN { [k \in 1..MaxDraws |-> 0] } ELSE uuidv4Streams

formVars == <<variant, practitioner, patient, condition, composition, medications,
              attachmentBase64>>

\* mutant: the catch of buildBundle stores its null
handleGenerate_clearsOnReject ==
    /\ variant = "App"
    /\ \E u \in streamsOf(FormState) : \E r \in {buildBundle(FormState, u)} :
        /\ generated' = r.bundle
        /\ errorMsg' = r.errorMsg
        /\ lastCall' = [called |-> TRUE, ids |-> r.ids, result |-> r.bundle]
    /\ UNCHANGED <<formVars, auxVars>>

\* App variant: the Generate JSON button (handleGenerate calls buildBundle;
\* setErrorMsg("") first, then setGenerated on success or setErrorMsg in
\* the catch)
handleGenerate ==
    /\ variant = "App"
    /\ \E u \in streamsOf(FormState) : \E r \in {buildBundle(FormState, u)} :
        /\ generated' = IF r.bundle # null THEN r.bundle ELSE generated
        /\ errorMsg' = r.errorMsg
        /\ lastCall' = [called |-> TRUE, ids |-> r.ids, result |-> r.bundle]
    /\ UNCHANGED <<formVars, auxVars>>

\* gpt variant: the Generate Bundle button (onClick = buildBundle)
gptGenerate ==
    /\ variant = "gpt"
    /\ \E u \in uuidv4Streams : \E r \in {gptBuildBundle(FormState, u)} :
        /\ generated' = r.bundle
        /\ lastCall' = [called |-> TRUE, ids |-> r.ids, result |-> r.bundle]
    /\ UNCHANGED <<formVars, errorMsg, auxVars>>

NextBuild == handleGenerate \/ gptGenerate

SpecBuild == InitBuild /\ [][NextBuild]_vars

(***************************************************************************)
(* Specification SpecExternal: the App variant's buildBundle over forms    *)
(* supplied from outside the form's inputs (FormState as an external       *)
(* input): the status is any string, not only an option of the select.     *)
(***************************************************************************)
ExternalStatuses == {"", "final", "amended"}

ExternalForms ==
    [practitioner : {initPractitioner}, patient : {initPatient},
     condition : {initCondition},
     composition : { [initComposition EXCEPT !.status = st] : st \in ExternalStatuses },
     medications : ListsOf(DoseItems), attachmentBase64 : {null}]

InitExternal ==
    /\ variant = "App"
    /\ \E f \in ExternalForms : SetForm(f)
    /\ InitUI
    /\ InitSession

NextExternal == handleGenerate

SpecExternal == InitExternal /\ [][NextExternal]_vars

(***************************************************************************)
(* Reading an assembled Document.                                          *)
(***************************************************************************)
IsHeader(e) == e.resource.resourceType = "Composition"
IsSubject(e) == e.resource.resourceType = "Patient"
IsAuthor(e) == e.resource.resourceType = "Practitioner"
IsOrder(e) == e.resource.resourceType = "MedicationRequest"
IsDiagnosis(e) == e.resource.resourceType = "Condition"
IsAttachment(e) == e.resource.resourceType = "Binary"

\* the resourceType of every entry, in entry order
KindsOf(b) == [i \in 1..Len(b.entry) |-> b.entry[i].resource.resourceType]

\* the references of a list of {reference, ...} objects
RefsOfList(l) == { l[i].reference : i \in 1..Len(l) }

\* every reference string embedded in a record
ReferencesIn(res) ==
    IF res.resourceType = "Composition"
    THEN {res.subject.reference} \cup RefsOfList(res.author)
         \cup UNION { RefsOfList(res.section[j].entry) : j \in 1..Len(res.section) }
    ELSE IF res.resourceType = "MedicationRequest"
    THEN {res.subject.reference, res.requester.reference} \cup RefsOfList(res.reasonReference)
    ELSE IF res.resourceType = "Condition"
    THEN {res.subject.reference}
    ELSE {}

\* every reference string embedded in any record of the Document
AllReferences(b) == UNION { ReferencesIn(b.entry[i].resource) : i \in 1..Len(b.entry) }

\* the positions of the entries a reference resolves to
Resolves(b, ref) == { i \in 1..Len(b.entry) : b.entry[i].fullUrl = ref }

PairwiseDistinct(s) == \A i, j \in 1..Len(s) : i # j => s[i] # s[j]

\* the attachment bytes are present
AttachmentPresent == TruthyOpt(attachmentBase64)

\* the completeness rules a form violates, each named by the message that
\* reports it
RulesViolated(f) ==
    { "Practitioner name and license are required." :
        x \in { y \in {1} : f.practitioner.name = "" \/ f.practitioner.license = "" } }
    \cup
    { "Patient name, MRN and DOB are required." :
        x \in { y \in {1} : \/ f.patient.name = "" \/ f.patient.mrn = ""
                            \/ f.patient.birthDate = "" } }
    \cup
    { "Condition/Diagnosis is required." : x \in { y \in {1} : f.condition.text = "" } }
    \cup
    { "Prescription title, date and status are required." :
        x \in { y \in {1} : \/ f.composition.title = "" \/ f.composition.date = ""
                            \/ f.composition.status \notin StatusOptions } }
    \cup
    { "Add at least one medication." : x \in { y \in {1} : Len(f.medications) = 0 } }
    \cup
    { "Medication #" \o ToString(i) \o ": Drug name and Dosage Instructions are required." :
        i \in { j \in 1..Len(f.medications) :
                  f.medications[j].medicationText = "" \/ f.medications[j].dosageText = "" } }

\* the identifiers of the Document's records, in entry order
RecordIds(b) == [i \in 1..Len(b.entry) |-> b.entry[i].resource.id]

OrdersOf(b) == SelectSeq(b.entry, IsOrder)
AttachmentsOf(b) == SelectSeq(b.entry, IsAttachment)

\* the Header's section reference list
SectionOf(b) == b.entry[1].resource.section[1].entry

(***************************************************************************)
(* C1  Referential closure.                                                *)
(***************************************************************************)
\* C1 (as claimed): in every assembled Document every embedded reference
\* equals the fullUrl of exactly one entry.
C1_ExactlyOneEntry ==
    generated # null =>
        \A ref \in AllReferences(generated[1]) :
            Cardinality(Resolves(generated[1], ref)) = 1

\* C1 (amended): in every assembled Document every embedded reference equals
\* the fullUrl of at least one entry, and of exactly one whenever uuidv4 gave
\* the Document's records pairwise distinct identifiers.
C1_ReferentialClosure ==
    generated # null =>
        \A ref \in AllReferences(generated[1]) :
            /\ Resolves(generated[1], ref) # {}
            /\ PairwiseDistinct(RecordIds(generated[1]))
                  => Cardinality(Resolves(generated[1], ref)) = 1

\* a Document with two Orders and an Attachment whose identifiers are distinct
C1_Witness ==
    /\ generated # null
    /\ Len(OrdersOf(generated[1])) >= 2
    /\ Len(AttachmentsOf(generated[1])) = 1
    /\ PairwiseDistinct(RecordIds(generated[1]))
    /\ Cardinality(AllReferences(generated[1])) = 6

(***************************************************************************)
(* C2  Canonical ordering.                                                 *)
(***************************************************************************)
\* C2: the entry list is Header, Subject, Author, one Order per item in item
\* order, Diagnosis, then the Attachment only if an attachment is present.
C2_CanonicalOrdering ==
    generated # null =>
        /\ KindsOf(generated[1]) =
              <<"Composition", "Patient", "Practitioner">>
              \o [i \in 1..Len(medications) |-> "MedicationRequest"]
              \o <<"Condition">>
              \o (IF AttachmentPresent THEN <<"Binary">> ELSE <<>>)
        /\ \A i \in 1..Len(medications) :
              generated[1].entry[3 + i].resource.dosageInstruction[1].text
                  = medications[i].dosageText

(***************************************************************************)
(* C3  The Header's section reference list.                                *)
(***************************************************************************)
\* C3: the section list is the references of the Order entries, in entry
\* order and one per item, followed by the reference of the Attachment entry
\* iff there is one, and nothing else.
C3_SectionList ==
    generated # null =>
        LET orders == OrdersOf(generated[1])
            bins == AttachmentsOf(generated[1])
            section == SectionOf(generated[1])
        IN  /\ Len(orders) = Len(medications)
            /\ Len(bins) <= 1
            /\ Len(section) = Len(orders) + Len(bins)
            /\ \A i \in 1..Len(orders) :
                  /\ section[i].reference = orders[i].fullUrl
                  /\ section[i].type = "MedicationRequest"
                  /\ orders[i].resource.dosageInstruction[1].text = medications[i].dosageText
            /\ \A j \in 1..Len(bins) :
                  /\ section[Len(orders) + j].reference = bins[j].fullUrl
                  /\ section[Len(orders) + j].type = "Binary"

\* a Document with two Orders of distinct identifiers and an Attachment
C3_Witness ==
    /\ generated # null
    /\ Len(OrdersOf(generated[1])) = 2
    /\ OrdersOf(generated[1])[1].fullUrl # OrdersOf(generated[1])[2].fullUrl
    /\ Len(AttachmentsOf(generated[1])) = 1
    /\ Len(SectionOf(generated[1])) = 3

(***************************************************************************)
(* C4  Medication representation exclusivity.                              *)
(***************************************************************************)
\* the item carries a medication code that is non-blank after trimming
CodeSupplied(m) == "medicationCode" \in DOMAIN m /\ trim(m.medicationCode) # <<>>

\* C4: every Order's medication is a coded concept carrying the trimmed code
\* iff the item's code is supplied and non-blank, free text otherwise, and
\* exactly one of the two.
C4_MedicationExclusive ==
    generated # null =>
        LET orders == OrdersOf(generated[1]) IN
        /\ Len(orders) = Len(medications)
        /\ \A i \in 1..Len(orders) :
              LET c == orders[i].resource.medicationCodeableConcept
                  coded == "coding" \in DOMAIN c
                  text == "text" \in DOMAIN c
              IN  /\ coded <=> CodeSupplied(medications[i])
                  /\ text <=> ~CodeSupplied(medications[i])
                  /\ coded => /\ Len(c.coding) = 1
                              /\ c.coding[1].code = trim(medications[i].medicationCode)
                              /\ c.coding[1].code # <<>>
                  /\ text => c.text = medications[i].medicationText

\* a Document whose first Order is coded from a code with surrounding blanks
\* and whose second Order is free text because its code is blank
C4_Witness ==
    /\ variant = "gpt"
    /\ generated # null
    /\ Len(medications) = 2
    /\ medications[1].medicationCode = <<" ", "1", "1", "4", " ">>
    /\ medications[2].medicationCode = <<" ", "\t">>
    /\ OrdersOf(generated[1])[1].resource.medicationCodeableConcept.coding[1].code
          = <<"1", "1", "4">>
    /\ DOMAIN OrdersOf(generated[1])[2].resource.medicationCodeableConcept = {"text"}

(***************************************************************************)
(* C5  Conditional substructure of the dosage.                             *)
(***************************************************************************)
\* C5: each Order's dosage carries the additional-instruction, route and
\* method sub-blocks iff the item's field is non-empty and the timing
\* sub-block iff frequency or period is non-null (0 included); the timing
\* carries each of frequency and period that is non-null, and the period
\* unit, "d" when absent.
C5_ConditionalSubstructure ==
    (variant = "App" /\ generated # null) =>
        \A i \in 1..Len(medications) :
            LET d == generated[1].entry[3 + i].resource.dosageInstruction[1]
                m == medications[i]
            IN  /\ "additionalInstruction" \in DOMAIN d <=> m.additionalInstruction # ""
                /\ "route" \in DOMAIN d <=> m.route # ""
                /\ "method" \in DOMAIN d <=> m.method # ""
                /\ "timing" \in DOMAIN d <=> (m.frequency # null \/ m.period # null)
                /\ "timing" \in DOMAIN d =>
                      /\ "frequency" \in DOMAIN d.timing.repeat <=> m.frequency # null
                      /\ "period" \in DOMAIN d.timing.repeat <=> m.period # null
                      /\ d.timing.repeat.periodUnit
                            = (IF m.periodUnit # "" THEN m.periodUnit ELSE "d")

(***************************************************************************)
(* C6  Validation gate.                                                    *)
(***************************************************************************)
\* C6: when a completeness rule fails, buildBundle draws no identifier,
\* returns null and stores no Document.
C6_ValidationGate ==
    (lastCall.called /\ RulesViolated(FormState) # {}) =>
        /\ lastCall.ids = <<>>
        /\ lastCall.result = null
        /\ generated = null

\* a call made on a form whose only violated rule is the second item's
\* missing dosage text
C6_Witness ==
    /\ lastCall.called
    /\ Len(medications) = 2
    /\ medications[2].dosageText = ""
    /\ Cardinality(RulesViolated(FormState)) = 1
    /\ errorMsg # ""

(***************************************************************************)
(* C7  Every violated rule is named.                                       *)
(***************************************************************************)
\* C7: after a rejected call the error message names every violated rule.
C7_EveryViolatedRuleNamed ==
    (variant = "App" /\ lastCall.called) =>
        \A rule \in RulesViolated(FormState) : errorMsg = rule

C9_AttachmentIffPresent ==
    generated # null =>
        LET b == generated[1]
            k == IF AttachmentPresent THEN 1 ELSE 0
        IN  /\ Len(AttachmentsOf(b)) = k
            /\ Len(b.entry) = 4 + Len(medications) + k
            /\ Cardinality({ j \in 1..Len(SectionOf(b)) : SectionOf(b)[j].type = "Binary" }) = k

(***************************************************************************)
(* C10  Orders, Header and Diagnosis point to the shared records.          *)
(***************************************************************************)
\* C10: a Document has one Subject, one Author and one Diagnosis entry;
\* every Order's subject, requester and reason reference, the Header's
\* subject and author reference and the Diagnosis's subject reference are
\* the fullUrls of those entries.
C10_SharedRecords ==
    generated # null =>
        LET b == generated[1]
            hdr == SelectSeq(b.entry, IsHeader)
            subj == SelectSeq(b.entry, IsSubject)
            auth == SelectSeq(b.entry, IsAuthor)
            diag == SelectSeq(b.entry, IsDiagnosis)
            orders == OrdersOf(b)
        IN  /\ Len(hdr) = 1 /\ Len(subj) = 1 /\ Len(auth) = 1 /\ Len(diag) = 1
            /\ \A i \in 1..Len(orders) :
                  /\ orders[i].resource.subject.reference = subj[1].fullUrl
                  /\ orders[i].resource.requester.reference = auth[1].fullUrl
                  /\ RefsOfList(orders[i].resource.reasonReference) = {diag[1].fullUrl}
            /\ hdr[1].resource.subject.reference = subj[1].fullUrl
            /\ RefsOfList(hdr[1].resource.author) = {auth[1].fullUrl}
            /\ diag[1].resource.subject.reference = subj[1].fullUrl

\* a Document with two Orders whose Subject, Author and Diagnosis have
\* distinct identifiers
C10_Witness ==
    /\ generated # null
    /\ Len(OrdersOf(generated[1])) = 2
    /\ Cardinality({ generated[1].entry[2].fullUrl, generated[1].entry[3].fullUrl,
                     generated[1].entry[Len(medications) + 4].fullUrl }) = 3


(***************************************************************************)
(* lineDiff (App variant).  A text is a sequence of one-character strings; *)
(* a line is a text without "\n"; the empty string is <<>>.                *)
(***************************************************************************)
\* longest text handed to lineDiff
MaxText == 3

Chars == {"a", "b", "\n"}

Texts == UNION { [1..n -> Chars] : n \in 0..MaxText }

\* String.prototype.split("\n"): the pieces between the separators, the
\* piece before the first and after the last separator included
RECURSIVE splitAcc(_, _, _)
splitAcc(str, piece, pieces) ==
    IF str = <<>> THEN Append(pieces, piece)
    ELSE IF Head(str) = "\n" THEN splitAcc(Tail(str), <<>>, Append(pieces, piece))
    ELSE splitAcc(Tail(str), Append(piece, Head(str)), pieces)

split(str) == splitAcc(str, <<>>, <<>>)

\* Math.max(left.length, right.length)
rowCount_min(left, right) == IF Len(left) <= Len(right) THEN Len(left) ELSE Len(right)

rowCount(left, right) == IF Len(left) >= Len(right) THEN Len(left) ELSE Len(right)

\* mutant: a position past the end yields a value no line equals
lineAt_noDefault(lines, i) == IF i \in DOMAIN lines THEN lines[i] ELSE <<"\n">>

\* lines[i] ?? "" (i counts from 1 here)
lineAt(lines, i) == IF i \in DOMAIN lines THEN lines[i] ELSE <<>>

\* l === r
sameLine_nonEmpty(l, r) == l = r /\ l # <<>>

sameLine(l, r) == l = r

lineDiff(leftStr, rightStr) ==
    LET left == split(leftStr)
        right == split(rightStr)
        max == rowCount(left, right)
    IN  [i \in 1..max |->
            [leftLine |-> lineAt(left, i), rightLine |-> lineAt(right, i),
             same |-> sameLine(lineAt(left, i), lineAt(right, i))]]

(***************************************************************************)
(* Specification SpecDiff: lineDiff applied to every pair of texts of at   *)
(* most MaxText characters.                                                *)
(***************************************************************************)
\* the form as the App variant's useState calls leave it
initForm ==
    [practitioner |-> initPractitioner, patient |-> initPatient,
     condition |-> initCondition, composition |-> initComposition,
     medications |-> <<initMedicationFull, initMedication>>,
     attachmentBase64 |-> null]

\* the form of the gpt variant's useState calls (the first code shortened)
gptInitForm ==
    [practitioner |-> initPractitioner, patient |-> initPatient,
     condition |-> initCondition, composition |-> initComposition,
     medications |->
        << [medicationText |-> "Azithromycin 250 mg oral tablet",
            medicationCode |-> <<"1", "1", "4">>,
            dosageText |-> "One tablet at once"],
           [medicationText |-> "Paracetemol 500mg Oral Tab", medicationCode |-> <<>>,
            dosageText |-> "Take two tablets orally with or after meal once a day"] >>,
     attachmentBase64 |-> null]

InitDiff ==
    /\ variant = "App"
    /\ SetForm(initForm)
    /\ InitUI
    /\ diffInput \in Texts \X Texts
    /\ uuidDraws = <<>>
    /\ uuidText = <<>>
    /\ clock = initClock
    /\ eventsLeft = 0

\* one call lineDiff(leftStr, rightStr), its result kept in diffRows
callLineDiff ==
    /\ diffInput # <<>>
    /\ diffRows' = lineDiff(diffInput[1], diffInput[2])
    /\ UNCHANGED <<formVars, generated, errorMsg, lastCall, diffInput,
                   showCompareModal, uuidVars, clock, fileVars, downloaded, eventsLeft>>

NextDiff == callLineDiff

SpecDiff == InitDiff /\ [][NextDiff]_vars

(***************************************************************************)
(* Readers of a text, stated without split                                 *)
(***************************************************************************)
\* one more than the number of newline characters
LineCount(text) == 1 + Cardinality({ i \in DOMAIN text : text[i] = "\n" })

\* the lines put back together with a newline between neighbours
RECURSIVE JoinLines(_)
JoinLines(lines) ==
    IF Len(lines) = 0 THEN <<>>
    ELSE IF Len(lines) = 1 THEN lines[1]
    ELSE lines[1] \o <<"\n">> \o JoinLines(Tail(lines))

IsLine(text) == \A i \in DOMAIN text : text[i] # "\n"

\* rows[1..n] read down one column are the n lines of text and the
\* column is empty below them
ColumnIs(column, text) ==
    LET n == LineCount(text) IN
    /\ Len(column) >= n
    /\ \A i \in DOMAIN column : IsLine(column[i])
    /\ JoinLines(SubSeq(column, 1, n)) = text
    /\ \A i \in DOMAIN column : i > n => column[i] = <<>>

\* a call of lineDiff has returned
Compared == diffInput # <<>> /\ diffRows # <<>>

\* C11: lineDiff returns max(lineCount(left), lineCount(right)) rows; row
\* i holds the i-th line of the left text and the i-th line of the right
\* text, the empty string where a text has no i-th line, and same is
\* true exactly when the two are identical
C11_PositionalRows ==
    Compared =>
        LET leftStr == diffInput[1]
            rightStr == diffInput[2]
            nl == LineCount(leftStr)
            nr == LineCount(rightStr)
        IN  /\ Len(diffRows) = (IF nl >= nr THEN nl ELSE nr)
            /\ ColumnIs([i \in DOMAIN diffRows |-> diffRows[i].leftLine], leftStr)
            /\ ColumnIs([i \in DOMAIN diffRows |-> diffRows[i].rightLine], rightStr)
            /\ \A i \in DOMAIN diffRows :
                diffRows[i].same = (diffRows[i].leftLine = diffRows[i].rightLine)

\* two texts of different line counts compared: the shorter is padded
C11_Witness ==
    /\ Compared
    /\ LineCount(diffInput[1]) = 1
    /\ LineCount(diffInput[2]) = 3
    /\ Len(diffRows) = 3
    /\ diffRows[3].leftLine = <<>>
    /\ diffRows[3].rightLine # <<>>
    /\ ~diffRows[3].same

\* C12: lineDiff(X, X) returns only rows with same = true
C12_DiffIdentity ==
    (Compared /\ diffInput[1] = diffInput[2]) =>
        \A i \in DOMAIN diffRows : diffRows[i].same

\* a text of several lines, one of them empty, compared with itself
C12_Witness ==
    /\ Compared
    /\ diffInput[1] = diffInput[2]
    /\ Len(diffRows) >= 2
    /\ \E i \in DOMAIN diffRows : diffRows[i].leftLine = <<>>
    /\ \E i \in DOMAIN diffRows : diffRows[i].leftLine # <<>>


(***************************************************************************)
(* uuidv4 at the level of characters (both variants: the same function).   *)
(* A value of Math.random() is k / RandomGrain for k in 0..RandomGrain-1,  *)
(* which is in [0, 1).                                                     *)
(***************************************************************************)
\* the random source yields multiples of 1 / RandomGrain
RandomGrain == 32
\* largest step between successive values of the random source considered
MaxStep == 3

HexDigits == <<"0", "1", "2", "3", "4", "5", "6", "7", "8", "9", "a", "b", "c", "d", "e", "f">>

\* "xxxxxxxx-xxxx-4xxx-yxxx-xxxxxxxxxxxx"
uuidTemplate ==
    [i \in 1..8 |-> "x"] \o <<"-">> \o [i \in 1..4 |-> "x"] \o <<"-", "4">> \o
    [i \in 1..3 |-> "x"] \o <<"-", "y">> \o [i \in 1..3 |-> "x"] \o <<"-">> \o
    [i \in 1..12 |-> "x"]

\* the number of x and y in the template: one Math.random() call each
UuidDraws == Cardinality({ i \in DOMAIN uuidTemplate : uuidTemplate[i] \in {"x", "y"} })

\* the sequences of Math.random() values considered: k-th value is
\* (start + (k - 1) * step) modulo RandomGrain, as a multiple of 1 / RandomGrain
RandomSequences ==
    { [k \in 1..UuidDraws |-> (start + (k - 1) * step) % RandomGrain] :
        start \in 0..(RandomGrain - 1), step \in 0..MaxStep }

\* (Math.random() * 16) | 0
randomNibble(x) == (x * 16) \div RandomGrain

\* (r & 0x3) | 0x8: the two low bits of r under the bits 1000
variantNibble_lowBitsOnly(r) == r % 4

variantNibble(r) == (r % 4) + 8

\* v.toString(16) for v in 0..15
toString16(v) == HexDigits[v + 1]

\* the callback of replace: the character that replaces c
replacement(c, x) ==
    LET r == randomNibble(x)
        v == IF c = "x" THEN r ELSE variantNibble(r)
    IN  toString16(v)

\* template.replace(/[xy]/g, callback): every x and y replaced from left
\* to right, each by a callback call that draws the next random value
RECURSIVE replaceXY(_, _)
replaceXY(template, draws) ==
    IF template = <<>> THEN <<>>
    ELSE IF Head(template) \in {"x", "y"}
         THEN <<replacement(Head(template), Head(draws))>> \o replaceXY(Tail(template), Tail(draws))
         ELSE <<Head(template)>> \o replaceXY(Tail(template), draws)

uuidv4(draws) == replaceXY(uuidTemplate, draws)

(***************************************************************************)
(* Specification SpecUuid: one uuidv4() call per sequence of random values *)
(***************************************************************************)
InitUuid ==
    /\ variant \in {"App", "gpt"}
    /\ SetForm(IF variant = "App" THEN initForm ELSE gptInitForm)
    /\ InitUI
    /\ diffInput = <<>>
    /\ uuidDraws \in RandomSequences
    /\ uuidText = <<>>
    /\ clock = initClock
    /\ eventsLeft = 0

callUuidv4 ==
    /\ uuidDraws # <<>>
    /\ uuidText' = uuidv4(uuidDraws)
    /\ UNCHANGED <<formVars, generated, errorMsg, lastCall, diffVars, uuidDraws,
                   clock, fileVars, downloaded, eventsLeft>>

NextUuid == callUuidv4

SpecUuid == InitUuid /\ [][NextUuid]_vars

\* the positions of the returned string that hold a fixed character
UuidHyphens == {9, 14, 19, 24}
UuidVersionAt == 15
UuidVariantAt == 20

\* which Math.random() call filled position p: the count of replaced
\* positions up to p
DrawFor(p) == Cardinality({ q \in 1..p : q \notin UuidHyphens \cup {UuidVersionAt} })

\* C13: whatever the random source yields, uuidv4() returns 36 characters
\* grouped 8-4-4-4-12 by hyphens at positions 9, 14, 19 and 24, with "4"
\* opening the third group, one of 8, 9, a, b opening the fourth, and at
\* every other position the hexadecimal digit of the random value drawn
\* for it
C13_UuidFormat ==
    uuidText # <<>> =>
        /\ Len(uuidText) = 36
        /\ \A p \in UuidHyphens : uuidText[p] = "-"
        /\ uuidText[UuidVersionAt] = "4"
        /\ uuidText[UuidVariantAt] \in {"8", "9", "a", "b"}
        /\ \A p \in (1..36) \ (UuidHyphens \cup {UuidVersionAt, UuidVariantAt}) :
            \E d \in 0..15 :
                /\ d * RandomGrain <= uuidDraws[DrawFor(p)] * 16
                /\ uuidDraws[DrawFor(p)] * 16 < (d + 1) * RandomGrain
                /\ uuidText[p] = HexDigits[d + 1]

\* a call whose random values reach both ends of the digit range and put
\* the largest nibble under the variant position
C13_Witness ==
    /\ uuidText # <<>>
    /\ uuidText[UuidVariantAt] = "b"
    /\ randomNibble(uuidDraws[DrawFor(UuidVariantAt)]) = 15
    /\ \E p \in 1..36 : uuidText[p] = "0"
    /\ \E p \in 1..36 : uuidText[p] = "f"


(***************************************************************************)
(* C14  Identifier uniqueness.                                             *)
(***************************************************************************)
\* how often v occurs in the sequence s
Occurrences(s, v) == Cardinality({ i \in DOMAIN s : s[i] = v })

\* C14 (as claimed): the identifiers of the records of one run are
\* pairwise distinct.
C14_IdentifiersDistinct ==
    generated # null => PairwiseDistinct(RecordIds(generated[1]))

\* C14 (amended): the K records of a run carry the results of the run's
\* first K uuidv4() calls, one call per record, so the identifiers are
\* pairwise distinct whenever those K results are.
C14_OneCallPerRecord ==
    (generated # null /\ lastCall.result = generated) =>
        LET ids == RecordIds(generated[1])
            K == Len(ids)
            calls == SubSeq(lastCall.ids, 1, K)
        IN  /\ K <= Len(lastCall.ids)
            /\ \A i \in 1..K :
                  /\ Occurrences(ids, ids[i]) = Occurrences(calls, ids[i])
                  /\ Occurrences(ids, calls[i]) = Occurrences(calls, calls[i])
            /\ PairwiseDistinct(calls) => PairwiseDistinct(ids)

\* an App run of seven records (two Orders, an Attachment) whose uuidv4()
\* calls all returned different values
C14_Witness ==
    /\ variant = "App"
    /\ generated # null
    /\ lastCall.result = generated
    /\ Len(RecordIds(generated[1])) = 7
    /\ PairwiseDistinct(lastCall.ids)


(***************************************************************************)
(* Specification SpecClock: the initial form of either variant generated   *)
(* under every clock reading considered.                                   *)
(***************************************************************************)
\* getTimezoneOffset() of the zones from UTC+14:00 to UTC-12:00 in steps
\* of a quarter of an hour
TzOffsets == { 15 * q : q \in (0 - 56)..48 }

\* the clock readings considered: two instants a minute apart in every zone
Clocks == [utc : {0, 1}, tzOffsetMin : TzOffsets]

InitClock ==
    /\ variant \in {"App", "gpt"}
    /\ SetForm(IF variant = "App" THEN initForm ELSE gptInitForm)
    /\ InitUI
    /\ diffInput = <<>>
    /\ uuidDraws = <<>>
    /\ uuidText = <<>>
    /\ clock \in Clocks
    /\ eventsLeft = 0

NextClock == handleGenerate \/ gptGenerate

SpecClock == InitClock /\ [][NextClock]_vars

\* the designator spells the zone offset: a sign, two digits of hours, a
\* colon, two digits of minutes, for the local time's distance from UTC
SpellsOffset(designator, tzOffsetMin) ==
    \E sign \in {"+", "-"}, h \in 0..14, m \in 0..59 :
        /\ designator =
              sign \o (IF h < 10 THEN "0" ELSE "") \o ToString(h) \o ":"
                   \o (IF m < 10 THEN "0" ELSE "") \o ToString(m)
        /\ (IF sign = "+" THEN 60 * h + m ELSE 0 - (60 * h + m)) = 0 - tzOffsetMin

\* C15: the Bundle timestamp and meta.lastUpdated of every assembled
\* Document end in the local zone's offset, +hh:mm or -hh:mm, never in "Z"
C15_ExplicitOffset ==
    generated # null =>
        /\ generated[1].timestamp.designator # "Z"
        /\ generated[1].meta.lastUpdated.designator # "Z"
        /\ SpellsOffset(generated[1].timestamp.designator, clock.tzOffsetMin)
        /\ SpellsOffset(generated[1].meta.lastUpdated.designator, clock.tzOffsetMin)


(***************************************************************************)
(* C17  Validation priority.                                               *)
(***************************************************************************)
\* the rules in the order of their priority: Practitioner, Patient,
\* Diagnosis text, DocumentMeta, non-empty list, then one rule per item
RuleOrder(f) ==
    << "Practitioner name and license are required.",
       "Patient name, MRN and DOB are required.",
       "Condition/Diagnosis is required.",
       "Prescription title, date and status are required.",
       "Add at least one medication." >>
    \o [i \in 1..Len(f.medications) |->
          "Medication #" \o ToString(i) \o ": Drug name and Dosage Instructions are required."]

\* the violated rule of highest priority
EarliestViolated(f) ==
    LET order == RuleOrder(f)
        k == CHOOSE i \in DOMAIN order :
                /\ order[i] \in RulesViolated(f)
                /\ \A j \in 1..(i - 1) : order[j] \notin RulesViolated(f)
    IN  order[k]

\* C17: a rejected call reports the violated rule that comes first in the
\* order Practitioner, Patient, Diagnosis text, DocumentMeta, non-empty
\* list, items by position; the report is a function of the form alone
C17_ValidationPriority ==
    (variant = "App" /\ lastCall.called /\ RulesViolated(FormState) # {}) =>
        errorMsg = EarliestViolated(FormState)

\* a call on a form whose two items are both incomplete and that violates
\* no other rule: the first item is the one reported
C17_Witness ==
    /\ variant = "App"
    /\ lastCall.called
    /\ Len(medications) = 2
    /\ medications[1].dosageText = ""
    /\ medications[2].medicationText = ""
    /\ Cardinality(RulesViolated(FormState)) = 2
    /\ errorMsg = "Medication #1: Drug name and Dosage Instructions are required."


(***************************************************************************)
(* App variant: the form's event handlers.  Every handler run on a user    *)
(* event takes one unit of eventsLeft.                                     *)
(***************************************************************************)
\* form events of one session
MaxEvents == 1

\* one user event on the form is spent
Event == eventsLeft > 0 /\ eventsLeft' = eventsLeft - 1

\* what the inputs of each section can be set to
PractitionerInputs ==
    [name |-> {"", initPractitioner.name}, license |-> {"", initPractitioner.license}]

PatientInputs ==
    [name |-> {"", initPatient.name}, mrn |-> {"", initPatient.mrn},
     phone |-> {"", initPatient.phone}, birthDate |-> {"", initPatient.birthDate},
     gender |-> {"male", "female"}]

ConditionInputs ==
    [text |-> {"", initCondition.text}, code |-> {"", initCondition.code},
     clinicalStatus |-> {"active", "inactive"}]

CompositionInputs ==
    [title |-> {"", initComposition.title}, status |-> StatusOptions,
     date |-> {"", initComposition.date}]

\* the reason select has the single option condition.text and raises no
\* change event
MedInputs ==
    [medicationText |-> {"", initMedication.medicationText},
     dosageText |-> {"", initMedication.dosageText},
     additionalInstruction |-> {"", "With or after food"},
     frequency |-> NumberInputs, period |-> NumberInputs,
     periodUnit |-> {"d", "h"}, route |-> {"", "Oral Route"},
     method |-> {"", "Swallow"}, authoredOn |-> {"", initComposition.date}]

\* state no form handler touches
outputVars == <<generated, errorMsg, lastCall, diffVars, downloaded>>
harnessVars == <<variant, uuidVars, clock>>

\* setPractitioner({ ...practitioner, [e.target.name]: e.target.value })
handlePractitionerChange ==
    /\ variant = "App"
    /\ Event
    /\ \E name \in DOMAIN PractitionerInputs : \E value \in PractitionerInputs[name] :
        /\ value # practitioner[name]
        /\ practitioner' = [practitioner EXCEPT ![name] = value]
    /\ UNCHANGED <<patient, condition, composition, medications, attachmentBase64,
                   fileVars, outputVars, harnessVars>>

handlePatientChange ==
    /\ variant = "App"
    /\ Event
    /\ \E name \in DOMAIN PatientInputs : \E value \in PatientInputs[name] :
        /\ value # patient[name]
        /\ patient' = [patient EXCEPT ![name] = value]
    /\ UNCHANGED <<practitioner, condition, composition, medications, attachmentBase64,
                   fileVars, outputVars, harnessVars>>

handleConditionChange ==
    /\ variant = "App"
    /\ Event
    /\ \E name \in DOMAIN ConditionInputs : \E value \in ConditionInputs[name] :
        /\ value # condition[name]
        /\ condition' = [condition EXCEPT ![name] = value]
    /\ UNCHANGED <<practitioner, patient, composition, medications, attachmentBase64,
                   fileVars, outputVars, harnessVars>>

handleCompositionChange ==
    /\ variant = "App"
    /\ Event
    /\ \E name \in DOMAIN CompositionInputs : \E value \in CompositionInputs[name] :
        /\ value # composition[name]
        /\ composition' = [composition EXCEPT ![name] = value]
    /\ UNCHANGED <<practitioner, patient, condition, medications, attachmentBase64,
                   fileVars, outputVars, harnessVars>>

\* copy = [...medications]; copy[index][field] = value; setMedications(copy)
\* (index counts from 1 here); everything but the Document
assignItemField(index, field, value) ==
    /\ variant = "App"
    /\ Event
    /\ value # medications[index][field]
    /\ medications' = [medications EXCEPT ![index][field] = value]
    /\ UNCHANGED <<practitioner, patient, condition, composition, attachmentBase64,
                   fileVars, errorMsg, lastCall, diffVars, downloaded, harnessVars>>

\* mutant: the Document holds the item objects themselves, so the
\* assignment shows through its Order
handleMedChange_aliased ==
    \E index \in DOMAIN medications : \E field \in DOMAIN MedInputs :
        \E value \in MedInputs[field] :
            /\ assignItemField(index, field, value)
            /\ generated' =
                  IF /\ generated # null
                     /\ field = "medicationText"
                     /\ 3 + index <= Len(generated[1].entry)
                     /\ IsOrder(generated[1].entry[3 + index])
                  THEN << [generated[1] EXCEPT
                             !.entry[3 + index].resource.medicationCodeableConcept.text = value] >>
                  ELSE generated

\* the item inputs: the Document copies the items' strings and numbers
\* and holds no item object
handleMedChange ==
    \E index \in DOMAIN medications : \E field \in DOMAIN MedInputs :
        \E value \in MedInputs[field] :
            /\ assignItemField(index, field, value)
            /\ UNCHANGED generated

\* the item addMedication appends (its id is never read)
newMedication ==
    [medicationText |-> "", dosageText |-> "", additionalInstruction |-> "",
     frequency |-> null, period |-> null, periodUnit |-> "d", route |-> "",
     method |-> "", reason |-> condition.text, authoredOn |-> composition.date]

addMedication ==
    /\ variant = "App"
    /\ Event
    /\ Len(medications) < MaxMeds
    /\ medications' = Append(medications, newMedication)
    /\ UNCHANGED <<practitioner, patient, condition, composition, attachmentBase64,
                   fileVars, outputVars, harnessVars>>

\* the Remove button: disabled={medications.length === 1}
removeDisabled_whenEmpty(meds) == Len(meds) = 0

removeDisabled(meds) == Len(meds) = 1

\* copy.splice(index, 1): the list without its item at index
splice(list, index) ==
    [i \in 1..(Len(list) - 1) |-> IF i < index THEN list[i] ELSE list[i + 1]]

removeMedication ==
    /\ variant = "App"
    /\ Event
    /\ ~removeDisabled(medications)
    /\ \E index \in DOMAIN medications : medications' = splice(medications, index)
    /\ UNCHANGED <<practitioner, patient, condition, composition, attachmentBase64,
                   fileVars, outputVars, harnessVars>>


(***************************************************************************)
(* App variant: the attachment input.  A file is [name, type, base64];     *)
(* the data URL readAsDataURL yields for it is its pieces around the       *)
(* comma.  readers lists the reads in flight in the order they started.    *)
(***************************************************************************)
Files ==
    { [name |-> "a.pdf", type |-> "application/pdf", base64 |-> "JVBERi0xLjQK"],
      [name |-> "b.pdf", type |-> "application/pdf", base64 |-> "JVBERi0xLjcK"],
      [name |-> "c.png", type |-> "image/png", base64 |-> "iVBORw0KGgo="] }

\* e.target.files[0]: undefined when the selection is cleared
FileInputs == {undefined} \cup { <<file>> : file \in Files }

\* reader.result of readAsDataURL, as result.split(",")
dataURL(file) == << "data:" \o file.type \o ";base64", file.base64 >>

\* the list without its i-th element
without(list, i) == [k \in 1..(Len(list) - 1) |-> IF k < i THEN list[k] ELSE list[k + 1]]

handleFile ==
    /\ variant = "App"
    /\ Event
    /\ \E file \in FileInputs :
        IF file = undefined
        THEN /\ attachmentBase64' = null
             /\ latestFile' = [file |-> undefined, outcome |-> "none"]
             /\ UNCHANGED readers
        ELSE IF file[1].type # "application/pdf"
        THEN /\ attachmentBase64' = null
             /\ latestFile' = [file |-> file, outcome |-> "rejected"]
             /\ UNCHANGED readers
        ELSE /\ readers' = Append(readers, file[1])
             /\ latestFile' = [file |-> file, outcome |-> "reading"]
             /\ UNCHANGED attachmentBase64
    /\ UNCHANGED <<practitioner, patient, condition, composition, medications,
                   outputVars, harnessVars>>

\* whether the read at position i is the one the latest selection started
readOfLatest(i) == i = Len(readers) /\ latestFile.outcome = "reading"

\* reader.onload of a read in flight
readerOnload ==
    /\ variant = "App"
    /\ \E i \in DOMAIN readers :
        /\ attachmentBase64' = << dataURL(readers[i])[2] >>
        /\ latestFile' = IF readOfLatest(i) THEN [latestFile EXCEPT !.outcome = "loaded"]
                         ELSE latestFile
        /\ readers' = without(readers, i)
    /\ UNCHANGED <<practitioner, patient, condition, composition, medications,
                   outputVars, harnessVars, eventsLeft>>

\* reader.onerror of a read in flight
readerOnerror ==
    /\ variant = "App"
    /\ \E i \in DOMAIN readers :
        /\ attachmentBase64' = null
        /\ latestFile' = IF readOfLatest(i) THEN [latestFile EXCEPT !.outcome = "failed"]
                         ELSE latestFile
        /\ readers' = without(readers, i)
    /\ UNCHANGED <<practitioner, patient, condition, composition, medications,
                   outputVars, harnessVars, eventsLeft>>

(***************************************************************************)
(* App variant: Download and Compare.  A pretty-printed text is a sequence *)
(* of whole lines and "\n" between them; the lines of one entry are        *)
(* folded into one.                                                        *)
(***************************************************************************)
\* JSON.stringify(obj, null, 2) of a Bundle
RECURSIVE prettyEntries(_)
prettyEntries(entries) ==
    IF entries = <<>> THEN <<>>
    ELSE <<ToString(Head(entries)), "\n">> \o prettyEntries(Tail(entries))

pretty(bundle) ==
    << "{", "\n", ToString(bundle.id), "\n", ToString(bundle.meta), "\n",
       ToString(bundle.identifier), "\n", ToString(bundle.timestamp), "\n" >>
    \o prettyEntries(bundle.entry) \o << "}" >>

\* pretty(exampleBundle): the imported example file
prettyExample ==
    << "{", "\n", "Bundle-Prescription-example-06", "\n", "}" >>

\* a.download
downloadName(bundle) == <<bundle.id, ".json">>

\* the Download JSON button (an alert and nothing else without a Document)
handleDownload ==
    /\ variant = "App"
    /\ Event
    /\ generated # null
    /\ downloaded' = << [name |-> downloadName(generated[1]),
                         content |-> pretty(generated[1])] >>
    /\ UNCHANGED <<formVars, fileVars, generated, errorMsg, lastCall, diffVars,
                   uuidVars, clock>>

\* the Compare JSON button (an alert and nothing else without a Document)
handleCompare ==
    /\ variant = "App"
    /\ Event
    /\ generated # null
    /\ diffInput' = <<prettyExample, pretty(generated[1])>>
    /\ diffRows' = lineDiff(prettyExample, pretty(generated[1]))
    /\ showCompareModal' = TRUE
    /\ UNCHANGED <<formVars, fileVars, generated, errorMsg, lastCall, downloaded,
                   uuidVars, clock>>

\* the two Close buttons of the modal
closeCompareModal ==
    /\ variant = "App"
    /\ showCompareModal
    /\ showCompareModal' = FALSE
    /\ UNCHANGED <<formVars, fileVars, generated, errorMsg, lastCall, downloaded,
                   diffInput, diffRows, uuidVars, clock, eventsLeft>>

(***************************************************************************)
(* Specification Spec: a session on the App variant's form of at most     *)
(* MaxEvents events besides Generate, before the first Generate click.     *)
(***************************************************************************)
\* the form as mounted, and as it is once the second item is removed
\* (with the list full, Add Medication has nothing to do here)
StartForms == { initForm, [initForm EXCEPT !.medications = <<initMedicationFull>>] }

Init ==
    /\ variant = "App"
    /\ \E f \in StartForms : SetForm(f)
    /\ InitUI
    /\ diffInput = <<>>
    /\ uuidDraws = <<>>
    /\ uuidText = <<>>
    /\ clock = initClock
    /\ eventsLeft = MaxEvents

Next ==
    \/ handlePractitionerChange
    \/ handlePatientChange
    \/ handleConditionChange
    \/ handleCompositionChange
    \/ handleMedChange
    \/ addMedication
    \/ removeMedication
    \/ handleFile
    \/ readerOnload
    \/ readerOnerror
    \/ handleGenerate
    \/ handleDownload
    \/ handleCompare
    \/ closeCompareModal

Spec == Init /\ [][Next]_vars


(***************************************************************************)
(* Specification SpecOutput: Generate, Download and Compare between edits  *)
(* of the Diagnosis and DocumentMeta sections, from the mounted form.      *)
(***************************************************************************)
\* events of one such session besides Generate
MaxOutputEvents == 2

InitOutput ==
    /\ variant = "App"
    /\ SetForm(initForm)
    /\ InitUI
    /\ diffInput = <<>>
    /\ uuidDraws = <<>>
    /\ uuidText = <<>>
    /\ clock = initClock
    /\ eventsLeft = MaxOutputEvents

NextOutput ==
    \/ handleConditionChange
    \/ handleCompositionChange
    \/ handleGenerate
    \/ handleDownload
    \/ handleCompare
    \/ closeCompareModal

SpecOutput == InitOutput /\ [][NextOutput]_vars

(***************************************************************************)
(* Specification SpecList: Add Medication, Remove and Generate from the    *)
(* mounted form.                                                           *)
(***************************************************************************)
\* Add and Remove clicks of one such session
MaxListEvents == 4

InitList ==
    /\ variant = "App"
    /\ SetForm(initForm)
    /\ InitUI
    /\ diffInput = <<>>
    /\ uuidDraws = <<>>
    /\ uuidText = <<>>
    /\ clock = initClock
    /\ eventsLeft = MaxListEvents

NextList == addMedication \/ removeMedication \/ handleGenerate

SpecList == InitList /\ [][NextList]_vars

(***************************************************************************)
(* Specification SpecFile: file selections and the completions of their    *)
(* reads, from the mounted form.                                           *)
(***************************************************************************)
\* file selections of one such session
MaxFileEvents == 3

InitFile ==
    /\ variant = "App"
    /\ SetForm(initForm)
    /\ InitUI
    /\ diffInput = <<>>
    /\ uuidDraws = <<>>
    /\ uuidText = <<>>
    /\ clock = initClock
    /\ eventsLeft = MaxFileEvents

NextFile == handleFile \/ readerOnload \/ readerOnerror

SpecFile == InitFile /\ [][NextFile]_vars


(***************************************************************************)
(* C16  The Document is immutable once returned.                           *)
(***************************************************************************)
\* a step in which buildBundle ran and returned something new
BuildStep == lastCall' # lastCall

\* C16: the stored Document changes only in a step in which buildBundle
\* returns a Document, and then to that Document; no edit of the form
\* (section inputs, item inputs, Add, Remove, file selection or the end
\* of a read) changes it, and buildBundle changes no form field
C16_DocumentImmutable ==
    [][ /\ generated' # generated =>
              /\ BuildStep
              /\ lastCall'.result # null
              /\ generated' = lastCall'.result
        /\ FormState' # FormState => generated' = generated
        /\ BuildStep => FormState' = FormState
      ]_vars

\* a Document whose first Order no longer matches the first item: the
\* item was edited after the Document was generated
C16_Witness ==
    /\ generated # null
    /\ lastCall.result = generated
    /\ Len(medications) = 2
    /\ Len(OrdersOf(generated[1])) = 2
    /\ OrdersOf(generated[1])[1].resource.medicationCodeableConcept.text
          # medications[1].medicationText

(***************************************************************************)
(* C18  A rejected Generate keeps the earlier Document.                    *)
(***************************************************************************)
\* C18: a rejected Generate leaves the stored Document as it was and sets
\* the error message to the reason; after any Generate the message is
\* non-empty exactly when the most recent Generate was rejected; Download
\* and Compare hand out the stored Document, so after a rejected Generate
\* the earlier one
C18_RejectKeepsDocument ==
    [][ /\ (BuildStep /\ lastCall'.result = null) =>
              /\ generated' = generated
              /\ errorMsg' = EarliestViolated(FormState)
        /\ lastCall'.called => (errorMsg' # "" <=> lastCall'.result = null)
        /\ downloaded' # downloaded =>
              /\ generated # null
              /\ downloaded'[1].content = pretty(generated[1])
        /\ diffInput' # diffInput =>
              /\ generated # null
              /\ diffInput'[2] = pretty(generated[1])
              /\ diffRows' = lineDiff(diffInput'[1], diffInput'[2])
      ]_vars

\* the most recent Generate was rejected, an earlier Document is still
\* stored, and it is the one compared and downloaded
C18_Witness ==
    /\ lastCall.called
    /\ lastCall.result = null
    /\ errorMsg = "Condition/Diagnosis is required."
    /\ generated # null
    /\ diffInput # <<>>
    /\ diffInput[2] = pretty(generated[1])
    /\ showCompareModal

(***************************************************************************)
(* C19  The attachment follows the latest file selection.                  *)
(***************************************************************************)
\* C19: once no read is in flight the attachment is the payload of the
\* most recently selected file if that is a PDF whose read succeeded,
\* and null otherwise
C19_LatestSelectionWins ==
    readers = <<>> =>
        attachmentBase64 =
            (IF latestFile.outcome = "loaded" THEN <<latestFile.file[1].base64>> ELSE null)

(***************************************************************************)
(* C20  The order list is never empty.                                     *)
(***************************************************************************)
\* C20: after any sequence of Add Medication and Remove clicks the list
\* has at least one item, and Generate never reports the empty list
C20_ListNeverEmpty ==
    /\ Len(medications) >= 1
    /\ errorMsg # "Add at least one medication."

\* the list brought down to one item, which is a blank one added by Add
\* Medication, and a Generate rejected for it
C20_Witness ==
    /\ Len(medications) = 1
    /\ medications[1].medicationText = ""
    /\ removeDisabled(medications)
    /\ lastCall.called
    /\ errorMsg = "Medication #1: Drug name and Dosage Instructions are required."


(***************************************************************************)
(* C21  Diagnosis code consistency.                                        *)
(***************************************************************************)
\* the codes of a list of codings
CodesOf(codings) == { codings[i].code : i \in DOMAIN codings }

\* C21: in every assembled Document the code of every Order's reason
\* coding is the code of the Diagnosis record's coding, whatever the
\* diagnosis code input, the empty one included
C21_DiagnosisCodeConsistent ==
    generated # null =>
        LET b == generated[1]
            diag == SelectSeq(b.entry, IsDiagnosis)
            orders == OrdersOf(b)
        IN  \A i \in DOMAIN orders : \A k \in DOMAIN orders[i].resource.reasonCode :
                \A d \in DOMAIN diag :
                    CodesOf(orders[i].resource.reasonCode[k].coding)
                        = CodesOf(diag[d].resource.code.coding)


(***************************************************************************)
(* C22  When lineDiff marks every row the same.                            *)
(***************************************************************************)
AllRowsSame == \A i \in DOMAIN diffRows : diffRows[i].same

\* the text without the newline characters that end it
RECURSIVE StripTrailingNewlines(_)
StripTrailingNewlines(text) ==
    IF text # <<>> /\ text[Len(text)] = "\n"
    THEN StripTrailingNewlines(SubSeq(text, 1, Len(text) - 1))
    ELSE text

\* C22 (as claimed): every row of lineDiff(A, B) is marked the same if
\* and only if A = B.
C22_AllSameIffIdentical ==
    Compared => (AllRowsSame <=> diffInput[1] = diffInput[2])

\* C22 (amended): every row of lineDiff(A, B) is marked the same if and
\* only if A and B are equal once the newline characters that end each
\* of them are removed; a line missing on the shorter side counts as an
\* empty line.
C22_AllSameIffEqualUpToTrailingNewlines ==
    Compared =>
        (AllRowsSame <=>
            StripTrailingNewlines(diffInput[1]) = StripTrailingNewlines(diffInput[2]))

\* two texts that differ only by the newlines that end the right one,
\* every row marked the same
C22_Witness ==
    /\ Compared
    /\ diffInput[1] # diffInput[2]
    /\ diffInput[1] # <<>>
    /\ Len(diffInput[2]) = Len(diffInput[1]) + 2
    /\ StripTrailingNewlines(diffInput[2]) = diffInput[1]
    /\ Len(diffRows) = 3
    /\ AllRowsSame


(***************************************************************************)
(* C23  getISOWithOffset and the instant.                                  *)
(***************************************************************************)
\* the instant (UTC minutes since the epoch) an ISO string denotes when
\* its designator spells a local time `ahead` minutes ahead of UTC: the
\* wall-clock fields are local time, so the instant is that much earlier
DenotesInstant(iso, ahead, instant) == iso.fields - ahead = instant

\* C23: the string getISOWithOffset returns for the instant d in a zone
\* whose local time is `ahead` minutes ahead of UTC ends in the sign,
\* hours and minutes of `ahead` and, read as clock fields plus that
\* offset, denotes d
C23_InstantPreserved ==
    (variant = "gpt" /\ generated # null) =>
        LET ahead == 0 - clock.tzOffsetMin
            stamps == { generated[1].timestamp, generated[1].meta.lastUpdated }
        IN  \A iso \in stamps :
                /\ SpellsOffset(iso.designator, clock.tzOffsetMin)
                /\ DenotesInstant(iso, ahead, clock.utc)

====
